---- MODULE Spec2Model ----
(***************************************************************************)
(* The hyperparameter-tuning notebook (lecture-hyperparameter-tuning.ipynb) *)
(* as a state machine: one IPython kernel, eight code cells, each cell a    *)
(* list of statements run one after another.  The three searches advance   *)
(* one model fit (grid, random) or one objective call (Bayesian) per step.  *)
(*                                                                          *)
(* Numbers with a fraction are fixed-point hundredths: 0.5 is 50, the       *)
(* bound (0.01, 0.3) is (1, 30), max_depth 7.949 is kept as 794.            *)
(* A cross-validated mean score is kept as the sum of its fold scores       *)
(* (cv times the mean), so that no division is needed to compare means.     *)
(***************************************************************************)
EXTENDS Integers, Sequences, FiniteSets

VARIABLES
    seed,      \* what the run does not control: data-dependent scores, random draws
    ns,        \* kernel namespace: name -> number of the cell that bound it (0: unbound)
    cell,      \* the cell being executed (0: the kernel is idle)
    stmt,      \* the statement of that cell about to run
    last,      \* the last cell that was started (0: fresh kernel)
    status,    \* per cell: "new", "running", "ok" or "error"
    exc,       \* per cell: the exception that ended it ("none" if none)
    stopped,   \* per cell: the statement at which it raised (0 if it did not)
    out,       \* the printed output, in order
    content,   \* per data name: version of the object's content (0: not created)
    loads,     \* number of load_wine() calls made so far
    calls,     \* per cell: number of search calls (fit / maximize) begun
    gs,        \* the GridSearchCV object
    rs,        \* the RandomizedSearchCV object
    bo,        \* the BayesianOptimization object
    evals,     \* log of the xgb_evaluate calls: arguments, depth used, accuracy
    params     \* the value bound to the name params in the Bayesian cell

vars == <<seed, ns, cell, stmt, last, status, exc, stopped, out, content,
          loads, calls, gs, rs, bo, evals, params>>

\* Number of different seeds (score landscapes and random streams) explored.
NumSeeds == 3

Hundredths(whole, frac) == whole * 100 + frac

Range(s) == {s[i] : i \in DOMAIN s}

Max(S) == CHOOSE m \in S : \A x \in S : x <= m

Min2(a, b) == IF a <= b THEN a ELSE b

Max2(a, b) == IF a >= b THEN a ELSE b

(***************************************************************************)
(* The declared search spaces.                                             *)
(***************************************************************************)

\* np.linspace(start, stop, num), in hundredths.
linspace(start, stop, num) ==
    [k \in 1..num |-> start + ((k - 1) * (stop - start)) \div (num - 1)]

param_grid ==
    [ learning_rate    |-> <<Hundredths(0, 1), Hundredths(0, 50)>>,
      max_depth        |-> <<3, 7>>,
      min_child_weight |-> <<3, 5>>,
      subsample        |-> <<Hundredths(0, 50), Hundredths(0, 70)>>,
      colsample_bytree |-> <<Hundredths(0, 50), Hundredths(0, 70)>>,
      n_estimators     |-> <<100, 200>>,
      objective        |-> <<"multi:softmax">> ]

param_dist ==
    [ learning_rate    |-> linspace(Hundredths(0, 1), Hundredths(1, 0), 10),
      max_depth        |-> <<3, 4, 5, 6, 7, 8, 9, 10>>,
      min_child_weight |-> <<1, 2, 3, 4, 5>>,
      subsample        |-> linspace(Hundredths(0, 50), Hundredths(1, 0), 6),
      colsample_bytree |-> linspace(Hundredths(0, 50), Hundredths(1, 0), 6),
      n_estimators     |-> <<100, 200, 300, 400, 500>>,
      objective        |-> <<"multi:softmax">> ]

\* The (low, high) bounds given to BayesianOptimization, in hundredths.
pbounds ==
    [ max_depth        |-> <<Hundredths(3, 0), Hundredths(10, 0)>>,
      gamma            |-> <<Hundredths(0, 0), Hundredths(1, 0)>>,
      colsample_bytree |-> <<Hundredths(0, 30), Hundredths(0, 90)>>,
      learning_rate    |-> <<Hundredths(0, 1), Hundredths(0, 30)>> ]

grid_cv == 3
rand_cv == 3
rand_n_iter == 50
init_points == 5
bo_n_iter == 10

(***************************************************************************)
(* The code cells.  A statement is the names it reads from the kernel      *)
(* namespace, the names it binds, what it does (op), and whether it calls  *)
(* into a third-party library, whose call may raise.                       *)
(***************************************************************************)

St(op, reads, writes, raises) ==
    [op |-> op, reads |-> reads, writes |-> writes, raises |-> raises]

SplitNames == {"X_train", "X_test", "y_train", "y_test"}

DataNames == {"X", "y"} \cup SplitNames

\* import numpy ... train_test_split(X, y, test_size=0.2, random_state=42)
cell_data ==
    << St("import", {}, {"np"}, TRUE),
       St("import", {}, {"pd"}, TRUE),
       St("import", {}, {"load_wine"}, TRUE),
       St("import", {}, {"train_test_split"}, TRUE),
       St("import", {}, {"xgb"}, TRUE),
       St("load", {"load_wine"}, {"wine"}, TRUE),
       St("frame", {"pd", "wine"}, {"X"}, TRUE),
       St("target", {"wine"}, {"y"}, FALSE),
       St("split", {"train_test_split", "X", "y"}, SplitNames, TRUE) >>

\* param_grid ... grid_search.fit(X_train, y_train) ... print
cell_grid ==
    << St("import", {}, {"GridSearchCV"}, TRUE),
       St("assign", {}, {"param_grid"}, FALSE),
       St("call", {"xgb"}, {"clf"}, TRUE),
       St("gs_new", {"GridSearchCV", "clf", "param_grid"}, {"grid_search"}, TRUE),
       St("gs_fit", {"grid_search", "X_train", "y_train"}, {}, TRUE),
       St("gs_print_params", {"grid_search"}, {}, FALSE),
       St("gs_print_score", {"grid_search"}, {}, FALSE) >>

\* best_model = grid_search.best_estimator_ ; new_model = xgb.XGBClassifier(**...)
cell_best ==
    << St("gs_attr", {"grid_search"}, {"best_model"}, FALSE),
       St("gs_attr_call", {"xgb", "grid_search"}, {"new_model"}, TRUE) >>

\* param_dist ... rand_search.fit(X_train, y_train) ... print
cell_rand ==
    << St("import", {}, {"RandomizedSearchCV"}, TRUE),
       St("call", {"np"}, {"param_dist"}, TRUE),
       St("rs_new", {"RandomizedSearchCV", "clf", "param_dist"}, {"rand_search"}, TRUE),
       St("rs_fit", {"rand_search", "X_train", "y_train"}, {}, TRUE),
       St("rs_print_params", {"rand_search"}, {}, FALSE),
       St("rs_print_score", {"rand_search"}, {}, FALSE) >>

\* rand_search.best_score_
cell_score == << St("rs_print_score", {"rand_search"}, {}, FALSE) >>

\* !pip install bayesian-optimization
cell_pip == << St("shell", {}, {}, FALSE) >>

\* import warnings ; warnings.filterwarnings('ignore')
cell_warnings ==
    << St("import", {}, {"warnings"}, FALSE),
       St("filterwarnings", {"warnings"}, {}, FALSE) >>

\* The names xgb_evaluate reads from the kernel namespace when it is called.
xgb_evaluate_globals ==
    {"XGBClassifier", "X_train", "y_train", "X_test", "y_test", "accuracy_score"}

\* the Bayesian optimization cell
cell_bayes ==
    << St("import", {}, {"np"}, TRUE),
       St("import", {}, {"pd"}, TRUE),
       St("import", {}, {"load_wine"}, TRUE),
       St("import", {}, {"train_test_split"}, TRUE),
       St("import", {}, {"XGBClassifier"}, TRUE),
       St("import", {}, {"BayesianOptimization"}, TRUE),
       St("import", {}, {"accuracy_score"}, TRUE),
       St("load", {"load_wine"}, {"wine"}, TRUE),
       St("frame", {"wine"}, {"X"}, FALSE),
       St("target", {"wine"}, {"y"}, FALSE),
       St("split", {"train_test_split", "X", "y"}, SplitNames, TRUE),
       St("assign", {}, {"xgb_evaluate"}, FALSE),
       St("bo_new", {"BayesianOptimization", "xgb_evaluate"}, {"xgb_bo"}, TRUE),
       St("bo_maximize", {"xgb_bo"} \cup xgb_evaluate_globals, {}, TRUE),
       St("bo_max", {"xgb_bo"}, {"params"}, FALSE),
       St("int", {"params"}, {}, FALSE),
       St("print_params", {"params"}, {}, FALSE) >>

cells ==
    << cell_data, cell_grid, cell_best, cell_rand, cell_score, cell_pip,
       cell_warnings, cell_bayes >>

Cells == DOMAIN cells

GridCell == 2
RandCell == 4
BayesCell == 8

Names ==
    UNION {UNION {cells[c][i].reads \cup cells[c][i].writes : i \in DOMAIN cells[c]} :
             c \in Cells}
    \cup xgb_evaluate_globals

(***************************************************************************)
(* Grid search and random search (scikit-learn, called by the grid and     *)
(* random cells).                                                          *)
(***************************************************************************)

\* The keys of a search space in the order the search iterates them
\* (sorted by name; the last key changes fastest).
search_keys ==
    << "colsample_bytree", "learning_rate", "max_depth", "min_child_weight",
       "n_estimators", "objective", "subsample" >>

RECURSIVE Product(_, _, _)
\* The product of the lengths of the value lists of keys[from..Len(keys)].
Product(space, keys, from) ==
    IF from > Len(keys) THEN 1
    ELSE Len(space[keys[from]]) * Product(space, keys, from + 1)

\* Number of combinations of a space of enumerated values.
GridSize(space) == Product(space, search_keys, 1)

KeyPos(k) == CHOOSE j \in DOMAIN search_keys : search_keys[j] = k

\* Candidate with each key's stride taken one key too early.
CandidateWrongStride(space, i) ==
    [k \in DOMAIN space |->
        LET stride == Product(space, search_keys, KeyPos(k))
        IN  space[k][((i \div stride) % Len(space[k])) + 1]]

\* The i-th combination (from 0) of a space of enumerated values.
Candidate(space, i) ==
    [k \in DOMAIN space |->
        LET stride == Product(space, search_keys, KeyPos(k) + 1)
        IN  space[k][((i \div stride) % Len(space[k])) + 1]]

\* SampleWithoutReplacement drawing one index too few.
SampleOneShort(sd, size, n) ==
    [j \in 1..(Min2(n, size) - 1) |-> ((7919 + 30 * sd) * j + 13 * sd) % size]

\* The indices random search draws, without replacement, from the size
\* combinations of a space of lists: n of them, or all when there are fewer.
SampleWithoutReplacement(sd, size, n) ==
    [j \in 1..Min2(n, size) |-> ((7919 + 30 * sd) * j + 13 * sd) % size]

\* The accuracy (one of five levels) of candidate i on fold f: what fitting
\* and scoring on the data gives, which the notebook does not control.
FoldScore(sd, i, f) == (i * (sd + 2) + f * (i % 3) + sd + (i \div 5)) % 5

\* BestIndex reporting the candidate evaluated last.
LastIndex(results) == Len(results)

\* The position of the best mean score: the first one that no other exceeds.
BestIndex(results) ==
    CHOOSE b \in DOMAIN results :
        /\ \A j \in DOMAIN results : results[j] <= results[b]
        /\ \A j \in 1..(b - 1) : results[j] < results[b]

\* A search object before fit: no results, no best_* attributes.
NewSearch ==
    [fitted |-> FALSE, candidates |-> <<>>, fold |-> 0, partial |-> 0,
     results |-> <<>>, fits |-> 0, best_index |-> 0, best_score |-> 0]

\* One cross-validation fit of search object s: the next fold of the candidate
\* being evaluated; after the last fold its mean score is recorded.
FitOne(s, sd, cv) ==
    LET c     == Len(s.results) + 1
        f     == s.fold + 1
        score == s.partial + FoldScore(sd, s.candidates[c], f)
    IN  IF f = cv
        THEN [s EXCEPT !.fold = 0, !.partial = 0, !.fits = @ + 1,
                       !.results = Append(@, score)]
        ELSE [s EXCEPT !.fold = f, !.partial = score, !.fits = @ + 1]

\* The end of fit: the best candidate is selected (and refitted).
Select(s) ==
    [s EXCEPT !.fitted = TRUE,
              !.best_index = BestIndex(s.results),
              !.best_score = s.results[BestIndex(s.results)]]

\* grid_search.best_params_ and rand_search.best_params_
BestParams(space, s) == Candidate(space, s.candidates[s.best_index])

(***************************************************************************)
(* Bayesian optimization (bayes_opt, called by the Bayesian cell) and the  *)
(* objective xgb_evaluate the cell defines.                                *)
(***************************************************************************)

\* int rounding to the nearest whole number instead of truncating.
int_round(x) == (x + 50) \div 100

\* Python's int() of a number kept in hundredths: truncation toward zero.
int(x) == IF x >= 0 THEN x \div 100 ELSE -((-x) \div 100)

\* The accuracy on the test split (hundredths) of the model trained with
\* these parameters: what the data gives, which the notebook does not control.
TestAccuracy(sd, depth, gamma, colsample_bytree, learning_rate) ==
    100 - 3 * ((depth * (sd + 1) + gamma \div 20 + colsample_bytree \div 30
                + learning_rate \div 16) % 3)

\* xgb_evaluate: the depth it trains with and the accuracy it returns.
xgb_evaluate(sd, max_depth, gamma, colsample_bytree, learning_rate) ==
    LET depth == int(max_depth)
    IN  [depth    |-> depth,
         accuracy |-> TestAccuracy(sd, depth, gamma, colsample_bytree, learning_rate)]

Low(k) == pbounds[k][1]

High(k) == pbounds[k][2]

Salt(k) == CASE k = "colsample_bytree" -> 3
             [] k = "gamma"            -> 11
             [] k = "learning_rate"    -> 5
             [] k = "max_depth"        -> 271

\* The j-th random point of the optimizer: each coordinate within its bounds.
RandomPoint(sd, j) ==
    [k \in DOMAIN pbounds |->
        Low(k) + (((sd * 37 + j * 53 + Salt(k)) * 17) % (High(k) - Low(k) + 1))]

\* Clip leaving the point where it is.
ClipNone(x, lo, hi) == x

Clip(x, lo, hi) == Max2(lo, Min2(x, hi))

\* BoMax taking the last of several tied points.
BoMaxLast(space) ==
    space[CHOOSE b \in DOMAIN space :
            /\ \A j \in DOMAIN space : space[j].target <= space[b].target
            /\ \A j \in (b + 1)..Len(space) : space[j].target < space[b].target]

\* The registered point of the highest target: the first one when several tie.
BoMax(space) ==
    space[CHOOSE b \in DOMAIN space :
            /\ \A j \in DOMAIN space : space[j].target <= space[b].target
            /\ \A j \in 1..(b - 1) : space[j].target < space[b].target]

\* The point the surrogate model proposes from the points registered so far:
\* a move away from the best registered point, clipped to the bounds.
Suggest(sd, space) ==
    LET best == BoMax(space).params
        n    == Len(space)
    IN  [k \in DOMAIN pbounds |->
            LET span == High(k) - Low(k)
                move == ((n * 29 + sd * 31 + Salt(k) * 7
                          + BoMax(space).target) * 13) % (span + 1)
            IN  Clip(best[k] + move - span \div 2, Low(k), High(k))]

\* The run recorded in the notebook's output: the 15 points probed and their
\* targets, in hundredths (fractions beyond the second digit dropped).
recorded_space ==
    LET P(t, c, g, l, d) ==
            [params |-> [colsample_bytree |-> c, gamma |-> g,
                         learning_rate |-> l, max_depth |-> d],
             target |-> t]
    IN  << P(97, 36, 50, 21, 794),  P(100, 62, 53, 29, 463),
           P(97, 73, 40, 8, 343),   P(94, 85, 71, 7, 820),
           P(100, 48, 24, 24, 834), P(100, 73, 31, 3, 509),
           P(100, 63, 26, 8, 710),  P(97, 81, 25, 26, 581),
           P(100, 36, 64, 20, 977), P(100, 74, 91, 24, 652),
           P(97, 74, 25, 20, 507),  P(100, 58, 20, 11, 939),
           P(100, 50, 29, 25, 866), P(100, 64, 36, 20, 949),
           P(94, 87, 28, 15, 504) >>

\* The "Optimized parameters" the notebook's output records.
recorded_optimum ==
    [colsample_bytree |-> 62, gamma |-> 53, learning_rate |-> 29, max_depth |-> 4]

\* A BayesianOptimization object after construction.
NewOptimizer ==
    [queue |-> <<>>, space |-> <<>>, iteration |-> 0, probe |-> <<>>,
     running |-> FALSE]

NoParams == [k \in DOMAIN pbounds |-> 0]

(***************************************************************************)
(* The kernel: running cells, statement by statement.                      *)
(***************************************************************************)

Init ==
    /\ seed \in 0..(NumSeeds - 1)
    /\ ns = [n \in Names |-> 0]
    /\ cell = 0
    /\ stmt = 0
    /\ last = 0
    /\ status = [c \in Cells |-> "new"]
    /\ exc = [c \in Cells |-> "none"]
    /\ stopped = [c \in Cells |-> 0]
    /\ out = <<>>
    /\ content = [n \in DataNames |-> 0]
    /\ loads = 0
    /\ calls = [c \in Cells |-> 0]
    /\ gs = NewSearch
    /\ rs = NewSearch
    /\ bo = NewOptimizer
    /\ evals = <<>>
    /\ params = NoParams

Cur == cells[cell][stmt]

Bound(n) == ns[n] # 0

Running == cell # 0

\* ReadsBound with no name lookup at all.
ReadsBoundAlways == TRUE

\* The statement about to run finds every name it reads.
ReadsBound == \A n \in Cur.reads : Bound(n)

\* The statement reads a best_* attribute, which only a fitted search has.
NeedsFitted ==
    CASE Cur.op \in {"gs_print_params", "gs_print_score", "gs_attr", "gs_attr_call"}
           -> ~gs.fitted
      [] Cur.op \in {"rs_print_params", "rs_print_score"} -> ~rs.fitted
      [] OTHER -> FALSE

\* The statement has run: on to the next one, or the cell is done.
Proceed ==
    IF stmt = Len(cells[cell])
    THEN /\ cell' = 0
         /\ stmt' = 0
         /\ status' = [status EXCEPT ![cell] = "ok"]
    ELSE /\ cell' = cell
         /\ stmt' = stmt + 1
         /\ UNCHANGED status

\* Raise with the exception caught and the cell carrying on.
RaiseCaught(kind) ==
    /\ exc' = [exc EXCEPT ![cell] = kind]
    /\ stopped' = [stopped EXCEPT ![cell] = stmt]
    /\ Proceed
    /\ UNCHANGED <<seed, ns, last, out, content, loads, calls, evals, params>>

\* An exception leaves the statement: nothing in the notebook catches it, so
\* the cell ends there; what the statement would have bound or printed is not.
Raise(kind) ==
    /\ cell' = 0
    /\ stmt' = 0
    /\ status' = [status EXCEPT ![cell] = "error"]
    /\ exc' = [exc EXCEPT ![cell] = kind]
    /\ stopped' = [stopped EXCEPT ![cell] = stmt]
    /\ UNCHANGED <<seed, ns, last, out, content, loads, calls, evals, params>>

\* The user runs a cell: any cell of a fresh kernel, then the one below the
\* last one run (run-and-advance).
RunCell(c) ==
    /\ ~Running
    /\ last = 0 \/ c = last + 1
    /\ cell' = c
    /\ stmt' = 1
    /\ last' = c
    /\ status' = [status EXCEPT ![c] = "running"]
    /\ UNCHANGED <<seed, ns, exc, stopped, out, content, loads, calls, gs, rs,
                   bo, evals, params>>

NameError ==
    /\ Running
    /\ ~ReadsBound
    /\ Raise("NameError")
    /\ UNCHANGED <<gs, rs, bo>>

AttributeError ==
    /\ Running
    /\ ReadsBound
    /\ NeedsFitted
    /\ Raise("AttributeError")
    /\ UNCHANGED <<gs, rs, bo>>

\* The library call of the statement raises.  A fit that raises leaves its
\* search object without results; an optimizer keeps the points it registered.
LibraryRaise ==
    /\ Running
    /\ ReadsBound
    /\ ~NeedsFitted
    /\ Cur.raises
    /\ Raise("LibraryError")
    /\ gs' = IF Cur.op = "gs_fit" THEN NewSearch ELSE gs
    /\ rs' = IF Cur.op = "rs_fit" THEN NewSearch ELSE rs
    /\ bo' = IF Cur.op = "bo_maximize"
             THEN [bo EXCEPT !.probe = <<>>, !.running = FALSE]
             ELSE bo

SimpleOps ==
    {"import", "assign", "call", "load", "frame", "target", "split", "shell",
     "filterwarnings", "gs_new", "rs_new", "bo_new", "gs_attr", "gs_attr_call",
     "bo_max", "int"}

\* A statement that binds names or builds an object.
Exec ==
    /\ Running
    /\ ReadsBound
    /\ ~NeedsFitted
    /\ Cur.op \in SimpleOps
    /\ ns' = [n \in Names |-> IF n \in Cur.writes THEN cell ELSE ns[n]]
    /\ loads' = IF Cur.op = "load" THEN loads + 1 ELSE loads
    /\ content' = [n \in DataNames |->
                     IF n \in Cur.writes THEN 1 ELSE content[n]]
    /\ gs' = IF Cur.op = "gs_new" THEN NewSearch ELSE gs
    /\ rs' = IF Cur.op = "rs_new" THEN NewSearch ELSE rs
    /\ bo' = IF Cur.op = "bo_new" THEN NewOptimizer ELSE bo
    /\ params' = CASE Cur.op = "bo_max" -> BoMax(bo.space).params
                   [] Cur.op = "int" -> [params EXCEPT !.max_depth = int(@)]
                   [] OTHER -> params
    /\ Proceed
    /\ UNCHANGED <<seed, last, exc, stopped, out, calls, evals>>

\* SearchFrame with the search writing into the data it is given.
SearchFrameMutating ==
    /\ content' = [n \in DataNames |-> IF content[n] = 1 THEN 2 ELSE content[n]]
    /\ UNCHANGED <<seed, ns, last, exc, stopped, out, loads, params>>

\* What every step of a search leaves alone.
SearchFrame == UNCHANGED <<seed, ns, last, exc, stopped, out, content, loads, params>>

AtOp(op) == Running /\ ReadsBound /\ Cur.op = op

\* grid_search.fit(X_train, y_train) starts: every combination of param_grid
\* becomes a candidate.
GridFitBegin ==
    /\ AtOp("gs_fit")
    /\ gs.candidates = <<>>
    /\ gs' = [gs EXCEPT !.candidates = [i \in 1..GridSize(param_grid) |-> i - 1]]
    /\ calls' = [calls EXCEPT ![cell] = @ + 1]
    /\ UNCHANGED <<cell, stmt, status, rs, bo, evals>>
    /\ SearchFrame

GridFitStep ==
    /\ AtOp("gs_fit")
    /\ Len(gs.results) < Len(gs.candidates)
    /\ gs' = FitOne(gs, seed, grid_cv)
    /\ UNCHANGED <<cell, stmt, status, calls, rs, bo, evals>>
    /\ SearchFrame

GridFitEnd ==
    /\ AtOp("gs_fit")
    /\ gs.candidates # <<>>
    /\ Len(gs.results) = Len(gs.candidates)
    /\ gs' = Select(gs)
    /\ Proceed
    /\ UNCHANGED <<calls, rs, bo, evals>>
    /\ SearchFrame

\* rand_search.fit(X_train, y_train) starts: n_iter combinations of param_dist
\* are drawn.
RandFitBegin ==
    /\ AtOp("rs_fit")
    /\ rs.candidates = <<>>
    /\ rs' = [rs EXCEPT !.candidates =
                SampleWithoutReplacement(seed, GridSize(param_dist), rand_n_iter)]
    /\ calls' = [calls EXCEPT ![cell] = @ + 1]
    /\ UNCHANGED <<cell, stmt, status, gs, bo, evals>>
    /\ SearchFrame

RandFitStep ==
    /\ AtOp("rs_fit")
    /\ Len(rs.results) < Len(rs.candidates)
    /\ rs' = FitOne(rs, seed, rand_cv)
    /\ UNCHANGED <<cell, stmt, status, calls, gs, bo, evals>>
    /\ SearchFrame

RandFitEnd ==
    /\ AtOp("rs_fit")
    /\ rs.candidates # <<>>
    /\ Len(rs.results) = Len(rs.candidates)
    /\ rs' = Select(rs)
    /\ Proceed
    /\ UNCHANGED <<calls, gs, bo, evals>>
    /\ SearchFrame

\* xgb_bo.maximize(init_points=5, n_iter=10) starts: the random initial
\* points are queued.
BoPrime ==
    /\ AtOp("bo_maximize")
    /\ ~bo.running
    /\ bo' = [bo EXCEPT !.running = TRUE, !.iteration = 0,
                        !.queue = [j \in 1..init_points |-> RandomPoint(seed, j)]]
    /\ calls' = [calls EXCEPT ![cell] = @ + 1]
    /\ UNCHANGED <<cell, stmt, status, gs, rs, evals>>
    /\ SearchFrame

\* BoNext suggesting points as soon as one target is registered, with initial
\* points still queued.
BoNextEager ==
    /\ AtOp("bo_maximize")
    /\ bo.running
    /\ bo.probe = <<>>
    /\ \/ /\ bo.queue # <<>>
          /\ bo.space = <<>> \/ bo.iteration >= bo_n_iter
          /\ bo' = [bo EXCEPT !.probe = <<Head(bo.queue)>>, !.queue = Tail(@)]
       \/ /\ bo.space # <<>>
          /\ bo.iteration < bo_n_iter
          /\ bo' = [bo EXCEPT !.probe = <<Suggest(seed, bo.space)>>,
                              !.iteration = @ + 1]
    /\ UNCHANGED <<cell, stmt, status, calls, gs, rs, evals>>
    /\ SearchFrame

\* The next point to probe: the head of the queue or, once the queue is
\* empty, the surrogate model's suggestion.
BoNext ==
    /\ AtOp("bo_maximize")
    /\ bo.running
    /\ bo.probe = <<>>
    /\ \/ /\ bo.queue # <<>>
          /\ bo' = [bo EXCEPT !.probe = <<Head(bo.queue)>>, !.queue = Tail(@)]
       \/ /\ bo.queue = <<>>
          /\ bo.iteration < bo_n_iter
          /\ bo' = [bo EXCEPT !.probe = <<Suggest(seed, bo.space)>>,
                              !.iteration = @ + 1]
    /\ UNCHANGED <<cell, stmt, status, calls, gs, rs, evals>>
    /\ SearchFrame

\* The optimizer calls xgb_evaluate on the point and registers its target.
XgbEvaluate ==
    /\ AtOp("bo_maximize")
    /\ bo.probe # <<>>
    /\ LET x == bo.probe[1]
           r == xgb_evaluate(seed, x.max_depth, x.gamma, x.colsample_bytree,
                             x.learning_rate)
       IN  /\ evals' = Append(evals, [args |-> x, depth |-> r.depth,
                                      accuracy |-> r.accuracy,
                                      registered |-> Len(bo.space)])
           /\ bo' = [bo EXCEPT !.probe = <<>>,
                       !.space = Append(@, [params |-> x, target |-> r.accuracy])]
    /\ UNCHANGED <<cell, stmt, status, calls, gs, rs>>
    /\ SearchFrame

BoEnd ==
    /\ AtOp("bo_maximize")
    /\ bo.running
    /\ bo.probe = <<>>
    /\ bo.queue = <<>>
    /\ bo.iteration >= bo_n_iter
    /\ bo' = [bo EXCEPT !.running = FALSE]
    /\ Proceed
    /\ UNCHANGED <<calls, gs, rs, evals>>
    /\ SearchFrame

Printed(kind, value) ==
    Append(out, [cell |-> cell, stmt |-> stmt, kind |-> kind, value |-> value])

\* print(...) of a result, or the cell's displayed value.
PrintResult ==
    /\ Running
    /\ ReadsBound
    /\ ~NeedsFitted
    /\ Cur.op \in {"gs_print_params", "gs_print_score", "rs_print_params",
                   "rs_print_score", "print_params"}
    /\ out' = CASE Cur.op = "gs_print_params"
                     -> Printed("grid_params", BestParams(param_grid, gs))
                [] Cur.op = "gs_print_score"
                     -> Printed("grid_score", [best_score |-> gs.best_score])
                [] Cur.op = "rs_print_params"
                     -> Printed("rand_params", BestParams(param_dist, rs))
                [] Cur.op = "rs_print_score"
                     -> Printed("rand_score", [best_score |-> rs.best_score])
                [] Cur.op = "print_params"
                     -> Printed("bayes_params", params)
    /\ Proceed
    /\ UNCHANGED <<seed, ns, last, exc, stopped, content, loads, calls, gs, rs,
                   bo, evals, params>>

Next ==
    \/ \E c \in Cells : RunCell(c)
    \/ NameError
    \/ AttributeError
    \/ LibraryRaise
    \/ Exec
    \/ PrintResult
    \/ GridFitBegin
    \/ GridFitStep
    \/ GridFitEnd
    \/ RandFitBegin
    \/ RandFitStep
    \/ RandFitEnd
    \/ BoPrime
    \/ BoNext
    \/ XgbEvaluate
    \/ BoEnd

Spec == Init /\ [][Next]_vars

(***************************************************************************)
(* Properties.                                                             *)
(***************************************************************************)

\* The candidates a search has drawn, as parameter mappings.
Evaluated(space, s) ==
    {Candidate(space, s.candidates[j]) : j \in 1..Len(s.results)}

\* The Cartesian product of the value lists of param_grid.
GridProduct ==
    [ learning_rate    : Range(param_grid.learning_rate),
      max_depth        : Range(param_grid.max_depth),
      min_child_weight : Range(param_grid.min_child_weight),
      subsample        : Range(param_grid.subsample),
      colsample_bytree : Range(param_grid.colsample_bytree),
      n_estimators     : Range(param_grid.n_estimators),
      objective        : Range(param_grid.objective) ]

\* The mean score of the j-th candidate of a search, times cv, from its folds.
FoldSum(s, j, cv) ==
    LET RECURSIVE Sum(_)
        Sum(f) == IF f = 0 THEN 0
                  ELSE FoldScore(seed, s.candidates[j], f) + Sum(f - 1)
    IN  Sum(cv)

OutOf(kind) == {i \in DOMAIN out : out[i].kind = kind}

\* C1: grid search is exhaustive.  While fitting, every candidate done has had
\* exactly one fit per fold; once fitted, the candidates evaluated are exactly
\* the Cartesian product of the seven value lists of param_grid, 64 of them,
\* none missing and none repeated, in 3 * 64 = 192 fits.
C1_GridExhaustive ==
    /\ gs.fits = grid_cv * Len(gs.results) + gs.fold
    /\ gs.fold < grid_cv
    /\ LET done == Evaluated(param_grid, gs)
       IN  Cardinality(done) = Len(gs.results) /\ done \subseteq GridProduct
    /\ gs.fitted =>
          /\ Evaluated(param_grid, gs) = GridProduct
          /\ Len(gs.results) = 64
          /\ Cardinality(GridProduct) = 2 * 2 * 2 * 2 * 2 * 2 * 1
          /\ gs.fits = 192

C1_Witness == gs.fitted /\ status[GridCell] = "ok" /\ gs.fits = 192

\* C2: random search evaluates a fixed number of points.  Whatever is drawn,
\* rand_search.fit evaluates exactly n_iter = 50 candidates in 150 fits, and
\* every candidate takes each value from the enumerated set of its key.
C2_RandFixedBudget ==
    /\ rs.fits = rand_cv * Len(rs.results) + rs.fold
    /\ rs.fold < rand_cv
    /\ rs.candidates # <<>> => Len(rs.candidates) = 50
    /\ \A j \in 1..Len(rs.candidates) :
          LET c == Candidate(param_dist, rs.candidates[j])
          IN  \A k \in DOMAIN param_dist : c[k] \in Range(param_dist[k])
    /\ rs.fitted => Len(rs.results) = 50 /\ rs.fits = 150

C2_Witness == rs.fitted /\ status[RandCell] = "ok" /\ rs.fits = 150

InBounds(k, v) == Low(k) <= v /\ v <= High(k)

\* The printed Bayesian parameters, back in hundredths (max_depth is printed
\* as a whole number).
PrintedHundredths(v, k) == IF k = "max_depth" THEN Hundredths(v[k], 0) ELSE v[k]

\* C3: the best parameters are consistent with the declared space.  After a
\* successful grid or random fit best_params_ has exactly the keys of the space
\* and each value is one of its key's enumerated values; every value of the
\* Bayesian optimum, max_depth after int() included, lies within the bounds of
\* its key.
C3_BestParamsInSpace ==
    /\ gs.fitted =>
          /\ DOMAIN BestParams(param_grid, gs) = DOMAIN param_grid
          /\ \A k \in DOMAIN param_grid :
                BestParams(param_grid, gs)[k] \in Range(param_grid[k])
    /\ rs.fitted =>
          /\ DOMAIN BestParams(param_dist, rs) = DOMAIN param_dist
          /\ \A k \in DOMAIN param_dist :
                BestParams(param_dist, rs)[k] \in Range(param_dist[k])
    /\ \A i \in OutOf("grid_params") :
          \A k \in DOMAIN param_grid : out[i].value[k] \in Range(param_grid[k])
    /\ \A i \in OutOf("rand_params") :
          \A k \in DOMAIN param_dist : out[i].value[k] \in Range(param_dist[k])
    /\ bo.space # <<>> =>
          \A k \in DOMAIN pbounds : InBounds(k, BoMax(bo.space).params[k])
    /\ \A i \in OutOf("bayes_params") :
          /\ DOMAIN out[i].value = DOMAIN pbounds
          /\ \A k \in DOMAIN pbounds : InBounds(k, PrintedHundredths(out[i].value, k))

C3_Witness ==
    /\ OutOf("grid_params") # {}
    /\ OutOf("rand_params") # {}
    /\ OutOf("bayes_params") # {}
    /\ bo.iteration = bo_n_iter

MaximizeReturned ==
    \/ status[BayesCell] = "ok"
    \/ cell = BayesCell /\ Cur.op \in {"bo_max", "int", "print_params"}

\* C4: Bayesian optimization is sequential with a fixed budget.  maximize calls
\* xgb_evaluate one point at a time, every call finding the targets of all
\* earlier calls registered; the first 5 calls are the initial points, no point
\* is suggested while one of them is still queued, each suggestion is made from
\* all the targets registered before it, and when maximize has returned
\* xgb_evaluate has been called exactly 5 + 10 = 15 times.
C4_BoSequential ==
    /\ Len(bo.probe) <= 1
    /\ Len(evals) = Len(bo.space)
    /\ Len(evals) <= 15
    /\ \A j \in DOMAIN evals :
          /\ evals[j].registered = j - 1
          /\ evals[j].args = bo.space[j].params
          /\ j <= init_points => evals[j].args = RandomPoint(seed, j)
          /\ j > init_points =>
                evals[j].args = Suggest(seed, SubSeq(bo.space, 1, j - 1))
    /\ bo.iteration > 0 => bo.queue = <<>> /\ Len(bo.space) >= init_points
    /\ bo.running =>
          Len(bo.space) + Len(bo.probe) + Len(bo.queue) = init_points + bo.iteration
    /\ MaximizeReturned => Len(evals) = 15 /\ bo.iteration = 10

C4_Witness == status[BayesCell] = "ok" /\ Len(evals) = 15

\* What a fitted search reports is the best of what it evaluated.
BestOfEvaluated(space, s, cv) ==
    /\ Len(s.results) = Len(s.candidates)
    /\ \A j \in DOMAIN s.results : s.results[j] = FoldSum(s, j, cv)
    /\ s.best_index \in DOMAIN s.results
    /\ s.best_score = s.results[s.best_index]
    /\ s.best_score = Max(Range(s.results))
    /\ \A j \in DOMAIN s.results : s.results[j] <= s.best_score
    /\ BestParams(space, s) \in Evaluated(space, s)

\* C8: for grid search and random search, after fit the printed best_score_ is
\* the maximum over the evaluated candidates of the mean accuracy across the 3
\* folds, and the printed best_params_ is an evaluated candidate that attains
\* it: none has a strictly higher mean.
C8_BestIsMaximum ==
    /\ gs.fitted => BestOfEvaluated(param_grid, gs, grid_cv)
    /\ rs.fitted => BestOfEvaluated(param_dist, rs, rand_cv)
    /\ \A i \in OutOf("grid_score") :
          gs.fitted /\ out[i].value.best_score = Max(Range(gs.results))
    /\ \A i \in OutOf("rand_score") :
          rs.fitted /\ out[i].value.best_score = Max(Range(rs.results))
    /\ \A i \in OutOf("grid_params") :
          \E j \in DOMAIN gs.results :
             /\ out[i].value = Candidate(param_grid, gs.candidates[j])
             /\ gs.results[j] = Max(Range(gs.results))
    /\ \A i \in OutOf("rand_params") :
          \E j \in DOMAIN rs.results :
             /\ out[i].value = Candidate(param_dist, rs.candidates[j])
             /\ rs.results[j] = Max(Range(rs.results))

C8_Witness ==
    /\ OutOf("grid_score") # {}
    /\ OutOf("grid_params") # {}
    /\ Cardinality(OutOf("rand_score")) = 2
    /\ OutOf("rand_params") # {}
    /\ \E j \in DOMAIN gs.results : gs.results[j] < gs.best_score
    /\ \E j \in DOMAIN rs.results : j > rs.best_index /\ rs.results[j] = rs.best_score

\* The first evaluation whose accuracy no evaluation exceeds.
FirstBestEval ==
    CHOOSE j \in DOMAIN evals :
        /\ \A i \in DOMAIN evals : evals[i].accuracy <= evals[j].accuracy
        /\ \A i \in 1..(j - 1) : evals[i].accuracy < evals[j].accuracy

\* C9: the printed "Optimized parameters" are those of one of the 15 evaluated
\* points whose target is the maximum over all of them, the earliest such point
\* when several tie, and the printed max_depth is the integer xgb_evaluate
\* trained with in that evaluation.  The run recorded in the notebook, where
\* ten points tie at 1.0, reports the second point, the first of them.
C9_OptimizedIsFirstBest ==
    /\ \A i \in OutOf("bayes_params") :
          /\ Len(evals) = 15
          /\ LET e == evals[FirstBestEval]
             IN  /\ e.accuracy = Max({evals[j].accuracy : j \in DOMAIN evals})
                 /\ out[i].value.max_depth = e.depth
                 /\ \A k \in DOMAIN pbounds \ {"max_depth"} :
                       out[i].value[k] = e.args[k]
    /\ ns["params"] # 0 =>
          [BoMax(recorded_space).params EXCEPT !.max_depth = int(@)]
             = recorded_optimum

C9_Witness ==
    /\ OutOf("bayes_params") # {}
    /\ \E j \in DOMAIN evals :
          j > FirstBestEval /\ evals[j].accuracy = evals[FirstBestEval].accuracy
    /\ evals[FirstBestEval].args.max_depth % 100 # 0

\* C10: every point passed to xgb_evaluate has each argument within its
\* declared bounds, and the depth used, int(max_depth), is max_depth truncated
\* toward zero: an integer in 3..10 that never exceeds max_depth, is less than
\* one below it, and is 10 only when max_depth is the upper bound 10.
C10_ArgsInBoundsDepthTruncated ==
    \A j \in DOMAIN evals :
        /\ \A k \in DOMAIN pbounds : InBounds(k, evals[j].args[k])
        /\ evals[j].depth \in 3..10
        /\ Hundredths(evals[j].depth, 0) <= evals[j].args.max_depth
        /\ evals[j].args.max_depth < Hundredths(evals[j].depth + 1, 0)
        /\ evals[j].depth = 10 => evals[j].args.max_depth = Hundredths(10, 0)

C10_Witness ==
    /\ \E j \in DOMAIN evals : evals[j].depth = 10
    /\ \E j \in DOMAIN evals : evals[j].args.max_depth % 100 > 50
    /\ \E j \in DOMAIN evals : evals[j].depth = 3

\* The names a cell reads before any statement of the cell has bound them.
FreeReads(c) ==
    {n \in Names :
        \E i \in DOMAIN cells[c] :
            /\ n \in cells[c][i].reads
            /\ \A j \in 1..(i - 1) : n \notin cells[c][j].writes}

\* Cell c is the only cell run since the kernel started.
Alone(c) == last = c /\ \A d \in Cells \ {c} : status[d] = "new"

SearchCells == {GridCell, RandCell, BayesCell}

\* C5 as claimed: any cell run on its own in a fresh kernel finds every name it
\* reads, and every cell that completes has made exactly one search call.
C5_Original ==
    \A c \in Cells :
        /\ Alone(c) => exc[c] \notin {"NameError", "AttributeError"}
        /\ status[c] = "ok" => calls[c] = 1

\* C5 as amended: only the data, pip, warnings and Bayesian cells bind every
\* name they read and never raise NameError.  The grid, best-model, random and
\* best-score cells read names that earlier cells bind; run on its own in a
\* fresh kernel each of them ends in an error, a NameError unless a library
\* call failed first, raised by a statement reading one of those names.  No
\* cell makes more than one search call: the three search cells make one when
\* they complete, the other cells none.
C5_SelfContainedCells ==
    /\ {c \in Cells : FreeReads(c) = {}} = {1, 6, 7, BayesCell}
    /\ FreeReads(GridCell) = {"xgb", "X_train", "y_train"}
    /\ FreeReads(3) = {"grid_search", "xgb"}
    /\ FreeReads(RandCell) = {"np", "clf", "X_train", "y_train"}
    /\ FreeReads(5) = {"rand_search"}
    /\ \A c \in Cells :
          /\ FreeReads(c) = {} => exc[c] # "NameError"
          /\ Alone(c) /\ FreeReads(c) # {} =>
                /\ status[c] # "ok"
                /\ exc[c] \in {"none", "NameError", "LibraryError"}
          /\ exc[c] = "NameError" =>
                cells[c][stopped[c]].reads \cap FreeReads(c) # {}
          /\ calls[c] <= 1
          /\ status[c] = "ok" => calls[c] = IF c \in SearchCells THEN 1 ELSE 0

C5_Witness ==
    /\ Alone(GridCell)
    /\ exc[GridCell] = "NameError"
    /\ stopped[GridCell] = 3

AllOk == \A c \in Cells : status[c] = "ok"

\* C6 as claimed: in a complete top-to-bottom run the dataset has been loaded
\* exactly once and no data object has been changed since it was created.
C6_Original ==
    /\ AllOk => loads = 1
    /\ \A n \in DataNames : content[n] <= 1

LoadStmt(c) == CHOOSE i \in DOMAIN cells[c] : cells[c][i].op = "load"

\* Cell c has run its load_wine() statement.
PastLoad(c) ==
    \/ status[c] = "ok"
    \/ cell = c /\ stmt > LoadStmt(c)
    \/ status[c] = "error" /\ stopped[c] > LoadStmt(c)

\* C6 as amended: the dataset is loaded by the first cell and loaded again by
\* the Bayesian cell, which binds X, y and the split anew, so a complete
\* top-to-bottom run loads it twice; no other cell loads or binds the data, and
\* no search, fit or predict call changes a data object after it is created.
C6_LoadedTwiceThenRead ==
    /\ {c \in Cells : \E i \in DOMAIN cells[c] : cells[c][i].op = "load"}
          = {1, BayesCell}
    /\ loads = Cardinality({c \in {1, BayesCell} : PastLoad(c)})
    /\ AllOk => loads = 2
    /\ \A n \in DataNames : content[n] <= 1 /\ ns[n] \in {0, 1, BayesCell}
    /\ \A n \in DataNames : content[n] = 1 <=> ns[n] # 0

C6_Witness == AllOk /\ loads = 2 /\ gs.fitted /\ rs.fitted /\ Len(evals) = 15

\* C7: a failure of a library call surfaces as that call's exception,
\* uncaught.  A cell that raised is in error and no longer running; it stopped
\* at the raising statement, a library call when the exception is the
\* library's; nothing of that statement or of the statements after it was
\* printed, bound or stored, and the names bound before it still are.
C7_ExceptionsStopCell ==
    \A c \in Cells :
        /\ exc[c] # "none" <=> status[c] = "error"
        /\ status[c] # "error" => stopped[c] = 0
        /\ status[c] = "error" =>
              /\ cell # c
              /\ stopped[c] \in DOMAIN cells[c]
              /\ exc[c] = "LibraryError" => cells[c][stopped[c]].raises
              /\ \A i \in DOMAIN out : out[i].cell = c => out[i].stmt < stopped[c]
              /\ \A n \in Names :
                    ns[n] = c =>
                       \E j \in 1..(stopped[c] - 1) : n \in cells[c][j].writes
              /\ \A j \in 1..(stopped[c] - 1) :
                    \A n \in cells[c][j].writes : ns[n] >= c
              /\ c = GridCell => ~gs.fitted
              /\ c = RandCell => ~rs.fitted
              /\ c = BayesCell => params = NoParams

C7_Witness ==
    /\ status[BayesCell] = "error"
    /\ exc[BayesCell] = "LibraryError"
    /\ cells[BayesCell][stopped[BayesCell]].op = "bo_maximize"
    /\ Len(evals) = 7
    /\ ns["wine"] = BayesCell
    /\ ns["params"] = 0
    /\ status[GridCell] = "error"
    /\ exc[GridCell] = "LibraryError"
    /\ cells[GridCell][stopped[GridCell]].op = "gs_fit"
    /\ OutOf("grid_params") = {}

====
